---- MODULE Spec2Model ----
(***************************************************************************)
(* Model of the automi operator runtime: the binary (reduce) operator, the *)
(* stream-expand operator and the null collector, each run as one task     *)
(* between an upstream producer and a downstream consumer that share a     *)
(* cancellable context.                                                    *)
(*                                                                         *)
(* One operator object is followed from construction (New / Null) through  *)
(* its setters and one Exec / Open call to the end of the task that call   *)
(* starts.  Setters are called before Exec (the builder protocol of the    *)
(* stream); the task is the only writer of the operator's fields after it. *)
(***************************************************************************)
EXTENDS Integers, Sequences, FiniteSets, TLC

(***************************************************************************)
(* Bounds of the model.                                                    *)
(***************************************************************************)
\* longest input sequence the upstream producer is given
MaxLen == 2
\* capacity of the operator's output channel (make(chan interface{}, 1024))
OutCap == 2
\* capacity of the channel the upstream producer writes to
InCap == 1
\* receives, sends and applications after cancellation that are counted
MaxLate == 2
\* largest argument SetConcurrency is called with, besides the 4 of the test
MaxConc == 2
\* longest operator list a stream is built with
MaxOps == 3

(***************************************************************************)
(* Items: interface{} values, tagged with their runtime kind.              *)
(***************************************************************************)
IntV(i) == [kind |-> "int", n |-> i, elems |-> << >>]
NilV == [kind |-> "nil", n |-> 0, elems |-> << >>]
ErrV == [kind |-> "err", n |-> 0, elems |-> << >>]
SliceV(s) == [kind |-> "slice", n |-> 0, elems |-> s]
\* tuple.KV{key, value}: a struct
KV(k, v) == [kind |-> "kv", n |-> k, elems |-> <<IntV(v)>>]
\* a map, held as the sequence of its entries in key order
MapV(s) == [kind |-> "map", n |-> 0, elems |-> s]

\* a marker for a call that panics instead of returning
Panic == [kind |-> "panic", n |-> 0, elems |-> << >>]

\* the items an upstream producer may send
Items ==
    { IntV(1), NilV, KV(1, 2),
      SliceV(<< >>), SliceV(<<IntV(1), IntV(2)>>), SliceV(<<IntV(3)>>),
      MapV(<<KV(1, 1), KV(2, 1)>>) }

\* the values SetInitialState is called with
InitStates == { IntV(0), IntV(1), NilV }

\* the operations SetOperation is called with
Ops == { "add", "sumslice", "nil", "guarded" }

RECURSIVE SeqsUpTo(_, _)
SeqsUpTo(S, k) ==
    IF k = 0 THEN { << >> }
    ELSE LET shorter == SeqsUpTo(S, k - 1)
         IN  shorter \cup { Append(s, x) : s \in { t \in shorter : Len(t) = k - 1 }, x \in S }

\* the input of TestBinaryOp_Exec and of TestStream_Reduce
TestExecInput ==
    << SliceV(<<IntV(1)>>), SliceV(<<IntV(1), IntV(2)>>),
       SliceV(<<IntV(1), IntV(2), IntV(3)>>) >>
TestReduceInput == << IntV(1), IntV(2), IntV(3), IntV(4), IntV(5) >>

Inputs == SeqsUpTo(Items, MaxLen) \cup { TestExecInput, TestReduceInput }

(***************************************************************************)
(* Binary operations (api.BinFunc values).                                 *)
(***************************************************************************)
RECURSIVE SumElems(_)
SumElems(s) == IF s = << >> THEN 0 ELSE Head(s).n + SumElems(Tail(s))

\* func(ctx, op1, op2) { return op1.(int) + op2.(int) }
OpAdd(st, item) ==
    IF st.kind = "int" /\ item.kind = "int" THEN IntV(st.n + item.n) ELSE Panic

\* func(ctx, op1, op2) { init := op1.(int); for _, i := range op2.([]int) { init += i }; return init }
OpSumSlice(st, item) ==
    IF st.kind = "int" /\ item.kind = "slice" THEN IntV(st.n + SumElems(item.elems)) ELSE Panic

\* func(ctx, op1, op2) { return nil }
OpNil(st, item) == NilV

\* an operation that is not commutative, returns nil for a nil item and a
\* StreamError for an item that is not an integer:
\* func(ctx, op1, op2) { s := op1.(int); if op2 == nil { return nil };
\*   if i, ok := op2.(int); ok { return 2*s + i }; return api.Error(...) }
OpGuarded(st, item) ==
    IF st.kind # "int" THEN Panic
    ELSE IF item.kind = "nil" THEN NilV
    ELSE IF item.kind = "int" THEN IntV(2 * st.n + item.n)
    ELSE ErrV

\* o.op.Apply(exeCtx, o.state, item)
Apply(op, st, item) ==
    CASE op = "add" -> OpAdd(st, item)
      [] op = "sumslice" -> OpSumSlice(st, item)
      [] op = "nil" -> OpNil(st, item)
      [] op = "guarded" -> OpGuarded(st, item)

(***************************************************************************)
(* State.                                                                  *)
(***************************************************************************)
VARIABLES
    topo,        \* which task runs between producer and consumer
    src,         \* items the producer has still to send
    produced,    \* items the producer has sent, in order
    chIn,        \* the operator's input channel: [buf, closes]
    chOut,       \* the operator's output channel: [buf, closes]
    outHist,     \* every item ever placed on the output channel, in order
    badSend,     \* a send on a closed channel has happened
    ctxDone,     \* the context passed to Exec / Open is done
    exeCancelled,\* the task's derived child context was cancelled
    inputSet,    \* SetInput was called (o.input # nil)
    execErr,     \* the last Exec returned a non-nil error
    pc,          \* position of the task
    sawClosed,   \* the task has received the closed indication of its input
    sawDone,     \* the task has received from Done()
    crashed,     \* the task has panicked
    bOp,         \* BinaryOperator.op ("none" is nil)
    bState,      \* BinaryOperator.state
    s0,          \* o.state when Exec was called
    applied,     \* the calls of op.Apply: <<state passed, item, result>>
    errCalls,    \* number of calls of the error function
    sCur,        \* stream-expand: elements of the current item still to emit
    reading,     \* the downstream consumer still reads the output
    lateSteps,   \* items received, emitted or applied by the task while ctxDone
    concurrency, \* BinaryOperator.concurrency
    lastConc,    \* the argument of the last SetConcurrency call, if any
    chain,       \* the other stages of a source -> expand -> reduce -> sink chain
    ops,         \* Stream.ops
    calls,       \* the operator-building calls made on the stream, in order
    uFn,         \* the transform of the unary Process stage
    openRes      \* what the channel returned by Stream.Open has yielded

vars == << topo, src, produced, chIn, chOut, outHist, badSend, ctxDone,
           exeCancelled, inputSet, execErr, pc, sawClosed, sawDone, crashed,
           bOp, bState, s0, applied, errCalls, sCur, reading, lateSteps,
           concurrency, lastConc, chain, ops, calls, uFn, openRes >>

\* the state of the components that a run of one operator task leaves alone
auxVars == << concurrency, lastConc, chain, ops, calls, uFn, openRes >>

binVars == << bOp, bState, s0, applied, errCalls >>
obsVars == << sawClosed, sawDone, crashed >>

\* make(chan interface{}, n)
NewChan == [buf |-> << >>, closes |-> 0]

Closed(c) == c.closes > 0

\* ch <- v
Send(c, v) == [c EXCEPT !.buf = Append(@, v)]

\* close(ch)
Close(c) == [c EXCEPT !.closes = @ + 1]

\* the stages of the chain before the chain is wired
NoChain ==
    [ sPc |-> "idle", nPc |-> "idle", mid |-> NewChan, res |-> NewChan ]

\* the fields that are the same after every construction
InitCommon ==
    /\ lateSteps = 0
    /\ concurrency = 1
    /\ lastConc = << >>
    /\ chain = NoChain
    /\ ops = << >>
    /\ calls = << >>
    /\ uFn = "none"
    /\ openRes = "pending"

\* the channels, the context and the task of a run before anything has run
InitRun ==
    /\ produced = << >>
    /\ chIn = NewChan
    /\ chOut = NewChan
    /\ outHist = << >>
    /\ badSend = FALSE
    /\ ctxDone = FALSE
    /\ exeCancelled = FALSE
    /\ inputSet = FALSE
    /\ execErr = FALSE
    /\ pc = "idle"
    /\ sawClosed = FALSE
    /\ sawDone = FALSE
    /\ crashed = FALSE
    /\ bOp = "none"
    /\ bState = NilV
    /\ s0 = NilV
    /\ applied = << >>
    /\ errCalls = 0
    /\ sCur = << >>
    /\ reading = TRUE

\* New() of both operators, Null() of the collector
Init ==
    /\ InitCommon
    /\ topo \in { "binary", "stream", "null" }
    /\ src \in Inputs
    /\ InitRun

(***************************************************************************)
(* The environment: upstream producer, downstream consumer, cancellation.  *)
(***************************************************************************)
\* in <- item
Produce ==
    /\ src # << >>
    /\ ~Closed(chIn)
    /\ Len(chIn.buf) < InCap
    /\ chIn' = Send(chIn, Head(src))
    /\ produced' = Append(produced, Head(src))
    /\ src' = Tail(src)
    /\ UNCHANGED << auxVars, lateSteps, topo, chOut, outHist, badSend, ctxDone, exeCancelled,
                    inputSet, execErr, pc, obsVars, binVars, sCur, reading >>

\* close(in), after the last item
CloseInput ==
    /\ src = << >>
    /\ ~Closed(chIn)
    /\ chIn' = Close(chIn)
    /\ UNCHANGED << auxVars, lateSteps, topo, src, produced, chOut, outHist, badSend, ctxDone,
                    exeCancelled, inputSet, execErr, pc, obsVars, binVars,
                    sCur, reading >>

\* <-o.GetOutput()
Consume ==
    /\ reading
    /\ topo # "null"
    /\ chOut.buf # << >>
    /\ chOut' = [chOut EXCEPT !.buf = Tail(@)]
    /\ UNCHANGED << auxVars, lateSteps, topo, src, produced, chIn, outHist, badSend, ctxDone,
                    exeCancelled, inputSet, execErr, pc, obsVars, binVars,
                    sCur, reading >>

\* the consumer stops reading for good
StopReading ==
    /\ reading
    /\ topo # "null"
    /\ reading' = FALSE
    /\ UNCHANGED << auxVars, lateSteps, topo, src, produced, chIn, chOut, outHist, badSend,
                    ctxDone, exeCancelled, inputSet, execErr, pc, obsVars,
                    binVars, sCur >>

\* the cancel function of the stream's context is called, or its deadline passes
Cancel ==
    /\ ~ctxDone
    /\ ctxDone' = TRUE
    /\ UNCHANGED << auxVars, lateSteps, topo, src, produced, chIn, chOut, outHist, badSend,
                    exeCancelled, inputSet, execErr, pc, obsVars, binVars,
                    sCur, reading >>

\* the count of late steps after one more receive, send or application
LateAfter ==
    IF ctxDone /\ lateSteps < MaxLate THEN lateSteps + 1 ELSE lateSteps

\* a receive from the input channel can deliver an item
CanRecv == chIn.buf # << >>

\* a receive from the input channel delivers the closed indication
RecvClosed == chIn.buf = << >> /\ Closed(chIn)

\* place v on the output channel; a send on a closed channel panics
Emit(v) ==
    /\ chOut' = Send(chOut, v)
    /\ outHist' = Append(outHist, v)
    /\ badSend' = (badSend \/ Closed(chOut))

(***************************************************************************)
(* Binary operator.                                                        *)
(***************************************************************************)
\* o.op = op
SetOperation(op) ==
    /\ topo = "binary"
    /\ pc = "idle"
    /\ bOp' = op
    /\ UNCHANGED << auxVars, lateSteps, topo, src, produced, chIn, chOut, outHist, badSend,
                    ctxDone, exeCancelled, inputSet, execErr, pc, obsVars,
                    bState, s0, applied, errCalls, sCur, reading >>

\* o.state = val
SetInitialState(val) ==
    /\ topo = "binary"
    /\ pc = "idle"
    /\ bState' = val
    /\ UNCHANGED << auxVars, lateSteps, topo, src, produced, chIn, chOut, outHist, badSend,
                    ctxDone, exeCancelled, inputSet, execErr, pc, obsVars,
                    bOp, s0, applied, errCalls, sCur, reading >>

\* if o.concurrency < 1 { o.concurrency = 1 }
ClampedBelowZero(concurr) == IF concurr < 0 THEN 1 ELSE concurr

Clamped(concurr) == IF concurr < 1 THEN 1 ELSE concurr

\* SetConcurrency(concurr), at any time: no task reads the field
SetConcurrency(concurr) ==
    /\ topo = "binary"
    /\ concurrency' = Clamped(concurr)
    /\ lastConc' = << concurr >>
    /\ UNCHANGED << chain, ops, calls, uFn, openRes, lateSteps, topo, src,
                    produced, chIn, chOut, outHist, badSend, ctxDone,
                    exeCancelled, inputSet, execErr, pc, obsVars, binVars,
                    sCur, reading >>

\* o.input = in
BinSetInput ==
    /\ topo = "binary"
    /\ pc = "idle"
    /\ inputSet' = TRUE
    /\ UNCHANGED << auxVars, lateSteps, topo, src, produced, chIn, chOut, outHist, badSend,
                    ctxDone, exeCancelled, execErr, pc, obsVars, binVars,
                    sCur, reading >>

\* Exec: an error when no input is set, else the task is started
BinExecStartsAnyway ==
    /\ topo = "binary"
    /\ pc = "idle"
    /\ execErr' = ~inputSet
    /\ pc' = "start"
    /\ s0' = bState
    /\ UNCHANGED << auxVars, lateSteps, topo, src, produced, chIn, chOut,
                    outHist, badSend, ctxDone, exeCancelled, inputSet,
                    obsVars, bOp, bState, applied, errCalls, sCur, reading >>

BinExec ==
    /\ topo = "binary"
    /\ pc = "idle"
    /\ IF ~inputSet
       THEN /\ execErr' = TRUE
            /\ UNCHANGED << pc, s0 >>
       ELSE /\ execErr' = FALSE
            /\ pc' = "start"
            /\ s0' = bState
    /\ UNCHANGED << auxVars, lateSteps, topo, src, produced, chIn, chOut, outHist, badSend,
                    ctxDone, exeCancelled, inputSet, obsVars, bOp, bState,
                    applied, errCalls, sCur, reading >>

\* doOp, up to the loop: return when no operation is set, else derive exeCtx
BinStart ==
    /\ topo = "binary"
    /\ pc = "start"
    /\ pc' = IF bOp = "none" THEN "defer" ELSE "select"
    /\ UNCHANGED << auxVars, lateSteps, topo, src, produced, chIn, chOut, outHist, badSend,
                    ctxDone, exeCancelled, inputSet, execErr, obsVars,
                    binVars, sCur, reading >>

\* case api.StreamError: autoctx.Err(o.errf, val): the calls of the error
\* function after a result
ErrCallsAfterAny(n, result) ==
    IF result.kind \in { "err", "nil" } THEN n + 1 ELSE n

ErrCallsAfter(n, result) ==
    IF result.kind = "err" THEN n + 1 ELSE n

\* o.state = o.op.Apply(exeCtx, o.state, item)
StateAfterKeep(old, result) == old

StateAfter(old, result) == result

\* case item, opened := <-o.input, opened: apply the operation; a panic of
\* the operation unwinds through the deferred cancel() to Exec's deferred
\* function
BinRecvStep(late) ==
    /\ pc = "select"
    /\ CanRecv
    /\ LET item == Head(chIn.buf)
           r == Apply(bOp, bState, item)
       IN  /\ chIn' = [chIn EXCEPT !.buf = Tail(@)]
           /\ applied' = Append(applied, <<bState, item, r>>)
           /\ IF r = Panic
              THEN /\ crashed' = TRUE
                   /\ exeCancelled' = TRUE
                   /\ pc' = "defer"
                   /\ UNCHANGED << bState, errCalls >>
              ELSE /\ bState' = StateAfter(bState, r)
                   /\ errCalls' = ErrCallsAfter(errCalls, r)
                   /\ UNCHANGED << crashed, exeCancelled, pc >>
    /\ lateSteps' = late
    /\ UNCHANGED << auxVars, topo, src, produced, chOut, outHist, badSend, ctxDone,
                    inputSet, execErr, sawClosed, sawDone, bOp, s0, sCur,
                    reading >>

BinRecv == topo = "binary" /\ BinRecvStep(lateSteps)

\* the same step, counted when it is taken with the context done
BinRecvCounted == topo = "binary" /\ BinRecvStep(LateAfter)

\* case item, opened := <-o.input, !opened: return (deferred cancel())
BinSeeClosed ==
    /\ topo = "binary"
    /\ pc = "select"
    /\ RecvClosed
    /\ sawClosed' = TRUE
    /\ exeCancelled' = TRUE
    /\ pc' = "defer"
    /\ UNCHANGED << auxVars, lateSteps, topo, src, produced, chIn, chOut, outHist, badSend,
                    ctxDone, inputSet, execErr, sawDone, crashed, binVars,
                    sCur, reading >>

\* case <-exeCtx.Done(): return (deferred cancel())
BinSeeDoneBreak ==
    /\ topo = "binary"
    /\ pc = "select"
    /\ ctxDone
    /\ sawDone' = TRUE
    /\ UNCHANGED << auxVars, lateSteps, topo, src, produced, chIn, chOut,
                    outHist, badSend, ctxDone, exeCancelled, inputSet,
                    execErr, pc, sawClosed, crashed, binVars, sCur, reading >>

BinSeeDone ==
    /\ topo = "binary"
    /\ pc = "select"
    /\ ctxDone
    /\ sawDone' = TRUE
    /\ exeCancelled' = TRUE
    /\ pc' = "defer"
    /\ UNCHANGED << auxVars, lateSteps, topo, src, produced, chIn, chOut, outHist, badSend,
                    ctxDone, inputSet, execErr, sawClosed, crashed, binVars,
                    sCur, reading >>

\* Exec's deferred function, first statement: o.output <- o.state
BinDeferSend ==
    /\ topo = "binary"
    /\ pc = "defer"
    /\ Len(chOut.buf) < OutCap
    /\ Emit(bState)
    /\ pc' = "closing"
    /\ UNCHANGED << auxVars, lateSteps, topo, src, produced, chIn, ctxDone, exeCancelled,
                    inputSet, execErr, obsVars, binVars, sCur, reading >>

\* Exec's deferred function, second statement: close(o.output)
BinDeferClose ==
    /\ topo = "binary"
    /\ pc = "closing"
    /\ chOut' = Close(chOut)
    /\ pc' = "done"
    /\ UNCHANGED << auxVars, lateSteps, topo, src, produced, chIn, outHist, badSend, ctxDone,
                    exeCancelled, inputSet, execErr, obsVars, binVars, sCur,
                    reading >>

(***************************************************************************)
(* Stream-expand operator.                                                 *)
(***************************************************************************)
\* r.input = in
StreamSetInput ==
    /\ topo = "stream"
    /\ pc = "idle"
    /\ inputSet' = TRUE
    /\ UNCHANGED << auxVars, lateSteps, topo, src, produced, chIn, chOut, outHist, badSend,
                    ctxDone, exeCancelled, execErr, pc, obsVars, binVars,
                    sCur, reading >>

\* Exec: an error when no input is set, else the task is started
StreamExec ==
    /\ topo = "stream"
    /\ pc = "idle"
    /\ IF ~inputSet
       THEN /\ execErr' = TRUE
            /\ UNCHANGED pc
       ELSE /\ execErr' = FALSE
            /\ pc' = "select"
    /\ UNCHANGED << auxVars, lateSteps, topo, src, produced, chIn, chOut, outHist, badSend,
                    ctxDone, exeCancelled, inputSet, obsVars, binVars, sCur,
                    reading >>

\* the orders in which range itemVal.MapKeys() may visit the entries
Perms(s) ==
    { [i \in 1..Len(s) |-> s[f[i]]] :
        f \in { g \in [1..Len(s) -> 1..Len(s)] :
                  \A i, j \in 1..Len(s) : i # j => g[i] # g[j] } }

\* for i := 0; i < itemVal.Len(); i++ { j := itemVal.Index(i) ... }
ElementsFromOne(item) == IF item.elems = << >> THEN << >> ELSE Tail(item.elems)

Elements(item) == item.elems

\* switch itemType.Kind(): the sequences of values the item may be emitted as
UnpackMapAsItem(item) ==
    CASE item.kind = "slice" -> { Elements(item) }
      [] OTHER -> { <<item>> }

Unpack(item) ==
    CASE item.kind = "slice" -> { Elements(item) }
      [] item.kind = "map" -> Perms(item.elems)
      [] OTHER -> { <<item>> }

\* the task's deferred function: cancel(); close(r.output)
StreamDeferredNoClose(c) == c

StreamDeferred(c) == Close(c)

\* case item, opened := <-r.input, opened: reflect.TypeOf(nil) is nil and
\* its Kind() call panics; any other item is unpacked
StreamRecvStep(late) ==
    /\ pc = "select"
    /\ CanRecv
    /\ LET item == Head(chIn.buf)
       IN  /\ chIn' = [chIn EXCEPT !.buf = Tail(@)]
           /\ IF item.kind = "nil"
              THEN /\ crashed' = TRUE
                   /\ exeCancelled' = TRUE
                   /\ chOut' = StreamDeferred(chOut)
                   /\ pc' = "done"
                   /\ UNCHANGED sCur
              ELSE /\ \E seq \in Unpack(item) :
                        /\ sCur' = seq
                        /\ pc' = IF seq = << >> THEN "select" ELSE "emit"
                   /\ UNCHANGED << crashed, exeCancelled, chOut >>
    /\ lateSteps' = late
    /\ UNCHANGED << auxVars, topo, src, produced, outHist, badSend, ctxDone, inputSet,
                    execErr, sawClosed, sawDone, binVars, reading >>

StreamRecv == topo = "stream" /\ StreamRecvStep(lateSteps)

\* the same step, counted when it is taken with the context done
StreamRecvCounted == topo = "stream" /\ StreamRecvStep(LateAfter)

\* select { case r.output <- v: ... }, for the next value of the current item
StreamEmitStep(late) ==
    /\ pc = "emit"
    /\ Len(chOut.buf) < OutCap
    /\ Emit(Head(sCur))
    /\ sCur' = Tail(sCur)
    /\ pc' = IF Tail(sCur) = << >> THEN "select" ELSE "emit"
    /\ lateSteps' = late
    /\ UNCHANGED << auxVars, topo, src, produced, chIn, ctxDone, exeCancelled,
                    inputSet, execErr, obsVars, binVars, reading >>

StreamEmit == topo = "stream" /\ StreamEmitStep(lateSteps)

\* the same step, counted when it is taken with the context done
StreamEmitCounted == topo = "stream" /\ StreamEmitStep(LateAfter)

\* case item, opened := <-r.input, !opened: return
StreamSeeClosedCancelsAll ==
    /\ topo = "stream"
    /\ pc = "select"
    /\ RecvClosed
    /\ sawClosed' = TRUE
    /\ exeCancelled' = TRUE
    /\ ctxDone' = TRUE
    /\ chOut' = StreamDeferred(chOut)
    /\ pc' = "done"
    /\ UNCHANGED << auxVars, lateSteps, topo, src, produced, chIn, outHist,
                    badSend, inputSet, execErr, sawDone, crashed, binVars,
                    sCur, reading >>

StreamSeeClosed ==
    /\ topo = "stream"
    /\ pc = "select"
    /\ RecvClosed
    /\ sawClosed' = TRUE
    /\ exeCancelled' = TRUE
    /\ chOut' = StreamDeferred(chOut)
    /\ pc' = "done"
    /\ UNCHANGED << auxVars, lateSteps, topo, src, produced, chIn, outHist, badSend, ctxDone,
                    inputSet, execErr, sawDone, crashed, binVars, sCur,
                    reading >>

\* the positions at which the task polls exeCtx.Done(): the outer select and
\* the select around each send
OnlyOuterSelect(p) == p = "select"

PollsDone(p) == p \in { "select", "emit" }

\* case <-exeCtx.Done(): return
StreamSeeDone ==
    /\ topo = "stream"
    /\ PollsDone(pc)
    /\ ctxDone
    /\ sawDone' = TRUE
    /\ exeCancelled' = TRUE
    /\ chOut' = StreamDeferred(chOut)
    /\ pc' = "done"
    /\ UNCHANGED << auxVars, lateSteps, topo, src, produced, chIn, outHist, badSend, ctxDone,
                    inputSet, execErr, sawClosed, crashed, binVars, sCur,
                    reading >>

(***************************************************************************)
(* Null collector.  chOut is the result channel Open returns.              *)
(***************************************************************************)
\* s.input = in
NullSetInput ==
    /\ topo = "null"
    /\ pc = "idle"
    /\ inputSet' = TRUE
    /\ UNCHANGED << auxVars, lateSteps, topo, src, produced, chIn, chOut, outHist, badSend,
                    ctxDone, exeCancelled, execErr, pc, obsVars, binVars,
                    sCur, reading >>

\* Open: result := make(chan error); go func() {...}(); return result
NullOpen ==
    /\ topo = "null"
    /\ pc = "idle"
    /\ pc' = "select"
    /\ UNCHANGED << auxVars, lateSteps, topo, src, produced, chIn, chOut, outHist, badSend,
                    ctxDone, exeCancelled, inputSet, execErr, obsVars,
                    binVars, sCur, reading >>

\* case _, opened := <-s.input, opened: the item is dropped; a nil s.input
\* never delivers
NullRecvReturns ==
    /\ topo = "null"
    /\ pc = "select"
    /\ inputSet
    /\ CanRecv
    /\ chIn' = [chIn EXCEPT !.buf = Tail(@)]
    /\ chOut' = Close(chOut)
    /\ pc' = "done"
    /\ UNCHANGED << auxVars, lateSteps, topo, src, produced, outHist,
                    badSend, ctxDone, exeCancelled, inputSet, execErr,
                    obsVars, binVars, sCur, reading >>

NullRecv ==
    /\ topo = "null"
    /\ pc = "select"
    /\ inputSet
    /\ CanRecv
    /\ chIn' = [chIn EXCEPT !.buf = Tail(@)]
    /\ UNCHANGED << auxVars, lateSteps, topo, src, produced, chOut, outHist, badSend, ctxDone,
                    exeCancelled, inputSet, execErr, pc, obsVars, binVars,
                    sCur, reading >>

\* case _, opened := <-s.input, !opened: return (deferred close(result))
NullSeeClosedOnNil ==
    /\ topo = "null"
    /\ pc = "select"
    /\ RecvClosed
    /\ sawClosed' = TRUE
    /\ chOut' = Close(chOut)
    /\ pc' = "done"
    /\ UNCHANGED << auxVars, lateSteps, topo, src, produced, chIn, outHist,
                    badSend, ctxDone, exeCancelled, inputSet, execErr,
                    sawDone, crashed, binVars, sCur, reading >>

NullSeeClosed ==
    /\ topo = "null"
    /\ pc = "select"
    /\ inputSet
    /\ RecvClosed
    /\ sawClosed' = TRUE
    /\ chOut' = Close(chOut)
    /\ pc' = "done"
    /\ UNCHANGED << auxVars, lateSteps, topo, src, produced, chIn, outHist, badSend, ctxDone,
                    exeCancelled, inputSet, execErr, sawDone, crashed,
                    binVars, sCur, reading >>

\* case <-ctx.Done(): return (deferred close(result))
NullSeeDone ==
    /\ topo = "null"
    /\ pc = "select"
    /\ ctxDone
    /\ sawDone' = TRUE
    /\ chOut' = Close(chOut)
    /\ pc' = "done"
    /\ UNCHANGED << auxVars, lateSteps, topo, src, produced, chIn, outHist, badSend, ctxDone,
                    exeCancelled, inputSet, execErr, sawClosed, crashed,
                    binVars, sCur, reading >>

(***************************************************************************)
(* Specifications.                                                         *)
(***************************************************************************)
Environment == Produce \/ CloseInput \/ Consume \/ StopReading \/ Cancel

BinSetup ==
    \/ \E op \in Ops : SetOperation(op)
    \/ \E val \in InitStates : SetInitialState(val)
    \/ BinSetInput
    \/ BinExec

BinTask ==
    BinStart \/ BinRecv \/ BinSeeClosed \/ BinSeeDone \/ BinDeferSend \/ BinDeferClose

StreamTask == StreamRecv \/ StreamEmit \/ StreamSeeClosed \/ StreamSeeDone

NullTask == NullRecv \/ NullSeeClosed \/ NullSeeDone

Next ==
    \/ Environment
    \/ BinSetup
    \/ BinTask
    \/ StreamSetInput \/ StreamExec
    \/ StreamTask
    \/ NullSetInput \/ NullOpen
    \/ NullTask

Spec == Init /\ [][Next]_vars

\* Every step of a started task is taken once it stays possible (the Go
\* scheduler runs every runnable goroutine, and select chooses among its
\* ready cases at random, so a case that stays ready is chosen in the end);
\* a consumer that has not stopped reading does read.  Nothing is assumed of
\* the producer or of cancellation.
Fairness ==
    /\ WF_vars(BinStart) /\ WF_vars(BinRecv) /\ WF_vars(BinSeeClosed)
    /\ WF_vars(BinSeeDone) /\ WF_vars(BinDeferSend) /\ WF_vars(BinDeferClose)
    /\ WF_vars(StreamRecv) /\ WF_vars(StreamEmit) /\ WF_vars(StreamSeeClosed)
    /\ WF_vars(StreamSeeDone)
    /\ WF_vars(NullRecv) /\ WF_vars(NullSeeClosed) /\ WF_vars(NullSeeDone)
    /\ WF_vars(Consume)

FairSpec == Init /\ [][Next]_vars /\ Fairness

\* The collector alone, with its producer and cancellation; every step of
\* its task is taken once it stays possible.
NullInit == Init /\ topo = "null"

NullNext ==
    \/ Produce \/ CloseInput \/ Cancel
    \/ NullSetInput \/ NullOpen
    \/ NullRecv \/ NullSeeClosed \/ NullSeeDone

NullFairSpec ==
    /\ NullInit /\ [][NullNext]_vars
    /\ WF_vars(NullRecv) /\ WF_vars(NullSeeClosed) /\ WF_vars(NullSeeDone)

\* The two operators that emit, with the steps taken after cancellation
\* counted.
LateInit == Init /\ topo \in { "binary", "stream" }

LateNext ==
    \/ Environment
    \/ BinSetup
    \/ BinStart \/ BinRecvCounted \/ BinSeeClosed \/ BinSeeDone
    \/ BinDeferSend \/ BinDeferClose
    \/ StreamSetInput \/ StreamExec
    \/ StreamRecvCounted \/ StreamEmitCounted
    \/ StreamSeeClosed \/ StreamSeeDone

LateSpec == LateInit /\ [][LateNext]_vars

\* The binary operator with its concurrency setter; the arguments are the
\* integers around the threshold and the 4 of TestBinaryOp_Params.
ConcArgs == (-1 .. MaxConc) \cup { 4 }

ConcItems == { IntV(1), NilV }

ConcInit == Init /\ topo = "binary" /\ src \in SeqsUpTo(ConcItems, MaxLen)

ConcNext ==
    \/ Environment
    \/ BinSetup
    \/ \E concurr \in ConcArgs : SetConcurrency(concurr)
    \/ BinTask

ConcSpec == ConcInit /\ [][ConcNext]_vars

(***************************************************************************)
(* The chain source -> stream-expand -> binary -> NullCollector.  chIn is   *)
(* the source's channel, chain.mid the stream-expand operator's output and *)
(* the binary operator's input, chOut the binary operator's output and the *)
(* collector's input, chain.res the channel the collector's Open returns.  *)
(* A panic in any task ends the whole program.                             *)
(***************************************************************************)
ChainItems == { IntV(1), NilV, SliceV(<< IntV(1), IntV(2) >>) }

ChainOps == { "none", "add", "sumslice" }

\* the source's channel, the two operators and the collector after their
\* constructors and the setters of the binary operator, nothing started
ChainInit ==
    /\ InitCommon
    /\ topo = "chain"
    /\ src \in SeqsUpTo(ChainItems, MaxLen)
    /\ produced = << >>
    /\ chIn = NewChan
    /\ chOut = NewChan
    /\ outHist = << >>
    /\ badSend = FALSE
    /\ ctxDone = FALSE
    /\ exeCancelled = FALSE
    /\ inputSet = TRUE
    /\ execErr = FALSE
    /\ pc = "idle"
    /\ sawClosed = FALSE
    /\ sawDone = FALSE
    /\ crashed = FALSE
    /\ bOp \in ChainOps
    /\ bState = IntV(0)
    /\ s0 = IntV(0)
    /\ applied = << >>
    /\ errCalls = 0
    /\ sCur = << >>
    /\ reading = TRUE

\* the stages are wired with SetInput(previous.GetOutput()), Exec is
\* called on each operator in chain order and Open on the collector
ChainOpen ==
    /\ topo = "chain"
    /\ pc = "idle"
    /\ pc' = "start"
    /\ chain' = [chain EXCEPT !.sPc = "select", !.nPc = "select"]
    /\ UNCHANGED << concurrency, lastConc, ops, calls, uFn, openRes,
                    lateSteps, topo, ctxDone, exeCancelled, inputSet,
                    execErr, sawClosed, sawDone, reading, bOp, s0, src,
                    produced, chIn, chOut, outHist, badSend, crashed,
                    bState, applied, errCalls, sCur >>

\* the source of the chain: in <- item
ChainProduce == topo = "chain" /\ ~crashed /\ Produce

\* the source of the chain: close(in)
ChainCloseInput == topo = "chain" /\ ~crashed /\ CloseInput

\* stream-expand: case item, opened := <-r.input, opened
ChainStreamRecv ==
    /\ topo = "chain" /\ ~crashed
    /\ chain.sPc = "select"
    /\ CanRecv
    /\ LET item == Head(chIn.buf)
       IN  /\ chIn' = [chIn EXCEPT !.buf = Tail(@)]
           /\ IF item.kind = "nil"
              THEN /\ crashed' = TRUE
                   /\ chain' = [chain EXCEPT !.sPc = "done",
                                             !.mid = StreamDeferred(@)]
                   /\ UNCHANGED sCur
              ELSE /\ \E seq \in Unpack(item) :
                        /\ sCur' = seq
                        /\ chain' = [chain EXCEPT !.sPc =
                                       IF seq = << >> THEN "select" ELSE "emit"]
                   /\ UNCHANGED crashed
    /\ UNCHANGED << concurrency, lastConc, ops, calls, uFn, openRes,
                    lateSteps, topo, ctxDone, exeCancelled, inputSet,
                    execErr, sawClosed, sawDone, reading, bOp, s0, src, produced, chOut,
                    outHist, badSend, pc, bState, applied, errCalls >>

\* stream-expand: select { case r.output <- v: ... }
ChainStreamEmit ==
    /\ topo = "chain" /\ ~crashed
    /\ chain.sPc = "emit"
    /\ Len(chain.mid.buf) < OutCap
    /\ chain' = [chain EXCEPT !.mid = Send(@, Head(sCur)),
                              !.sPc = IF Tail(sCur) = << >> THEN "select"
                                      ELSE "emit"]
    /\ sCur' = Tail(sCur)
    /\ UNCHANGED << concurrency, lastConc, ops, calls, uFn, openRes,
                    lateSteps, topo, ctxDone, exeCancelled, inputSet,
                    execErr, sawClosed, sawDone, reading, bOp, s0, src, produced, chIn,
                    chOut, outHist, badSend, pc, crashed, bState, applied,
                    errCalls >>

\* stream-expand: case item, opened := <-r.input, !opened: return
ChainStreamSeeClosed ==
    /\ topo = "chain" /\ ~crashed
    /\ chain.sPc = "select"
    /\ RecvClosed
    /\ chain' = [chain EXCEPT !.sPc = "done", !.mid = StreamDeferred(@)]
    /\ UNCHANGED << concurrency, lastConc, ops, calls, uFn, openRes,
                    lateSteps, topo, ctxDone, exeCancelled, inputSet,
                    execErr, sawClosed, sawDone, reading, bOp, s0, src, produced, chIn,
                    chOut, outHist, badSend, pc, crashed, bState, applied,
                    errCalls, sCur >>

\* binary: doOp, up to the loop
ChainBinStart ==
    /\ topo = "chain" /\ ~crashed
    /\ pc = "start"
    /\ pc' = IF bOp = "none" THEN "defer" ELSE "select"
    /\ UNCHANGED << concurrency, lastConc, ops, calls, uFn, openRes,
                    lateSteps, topo, ctxDone, exeCancelled, inputSet,
                    execErr, sawClosed, sawDone, reading, bOp, s0, src, produced, chIn,
                    chOut, outHist, badSend, chain, crashed, bState,
                    applied, errCalls, sCur >>

\* binary: case item, opened := <-o.input, opened
ChainBinRecv ==
    /\ topo = "chain" /\ ~crashed
    /\ pc = "select"
    /\ chain.mid.buf # << >>
    /\ LET item == Head(chain.mid.buf)
           r == Apply(bOp, bState, item)
       IN  /\ chain' = [chain EXCEPT !.mid.buf = Tail(@)]
           /\ applied' = Append(applied, << bState, item, r >>)
           /\ IF r = Panic
              THEN /\ crashed' = TRUE
                   /\ pc' = "defer"
                   /\ UNCHANGED << bState, errCalls >>
              ELSE /\ bState' = StateAfter(bState, r)
                   /\ errCalls' = ErrCallsAfter(errCalls, r)
                   /\ UNCHANGED << crashed, pc >>
    /\ UNCHANGED << concurrency, lastConc, ops, calls, uFn, openRes,
                    lateSteps, topo, ctxDone, exeCancelled, inputSet,
                    execErr, sawClosed, sawDone, reading, bOp, s0, src, produced, chIn,
                    chOut, outHist, badSend, sCur >>

\* binary: case item, opened := <-o.input, !opened: return
ChainBinSeeClosed ==
    /\ topo = "chain" /\ ~crashed
    /\ pc = "select"
    /\ chain.mid.buf = << >> /\ Closed(chain.mid)
    /\ pc' = "defer"
    /\ UNCHANGED << concurrency, lastConc, ops, calls, uFn, openRes,
                    lateSteps, topo, ctxDone, exeCancelled, inputSet,
                    execErr, sawClosed, sawDone, reading, bOp, s0, src, produced, chIn,
                    chOut, outHist, badSend, chain, crashed, bState,
                    applied, errCalls, sCur >>

\* binary: Exec's deferred function, o.output <- o.state
ChainBinDeferSend ==
    /\ topo = "chain" /\ ~crashed
    /\ pc = "defer"
    /\ Len(chOut.buf) < OutCap
    /\ Emit(bState)
    /\ pc' = "closing"
    /\ UNCHANGED << concurrency, lastConc, ops, calls, uFn, openRes,
                    lateSteps, topo, ctxDone, exeCancelled, inputSet,
                    execErr, sawClosed, sawDone, reading, bOp, s0, src, produced, chIn,
                    chain, crashed, bState, applied, errCalls, sCur >>

\* binary: Exec's deferred function, close(o.output)
ChainBinDeferClose ==
    /\ topo = "chain" /\ ~crashed
    /\ pc = "closing"
    /\ chOut' = Close(chOut)
    /\ pc' = "done"
    /\ UNCHANGED << concurrency, lastConc, ops, calls, uFn, openRes,
                    lateSteps, topo, ctxDone, exeCancelled, inputSet,
                    execErr, sawClosed, sawDone, reading, bOp, s0, src, produced, chIn,
                    outHist, badSend, chain, crashed, bState, applied,
                    errCalls, sCur >>

\* collector: case _, opened := <-s.input, opened: the item is dropped
ChainNullRecv ==
    /\ topo = "chain" /\ ~crashed
    /\ chain.nPc = "select"
    /\ chOut.buf # << >>
    /\ chOut' = [chOut EXCEPT !.buf = Tail(@)]
    /\ UNCHANGED << concurrency, lastConc, ops, calls, uFn, openRes,
                    lateSteps, topo, ctxDone, exeCancelled, inputSet,
                    execErr, sawClosed, sawDone, reading, bOp, s0, src, produced, chIn,
                    outHist, badSend, pc, chain, crashed, bState, applied,
                    errCalls, sCur >>

\* collector: case _, opened := <-s.input, !opened: return (deferred
\* close(result))
ChainNullSeeClosed ==
    /\ topo = "chain" /\ ~crashed
    /\ chain.nPc = "select"
    /\ chOut.buf = << >> /\ Closed(chOut)
    /\ chain' = [chain EXCEPT !.nPc = "done", !.res = Close(@)]
    /\ UNCHANGED << concurrency, lastConc, ops, calls, uFn, openRes,
                    lateSteps, topo, ctxDone, exeCancelled, inputSet,
                    execErr, sawClosed, sawDone, reading, bOp, s0, src, produced, chIn,
                    chOut, outHist, badSend, pc, crashed, bState, applied,
                    errCalls, sCur >>

ChainNext ==
    \/ ChainOpen
    \/ ChainProduce \/ ChainCloseInput
    \/ ChainStreamRecv \/ ChainStreamEmit \/ ChainStreamSeeClosed
    \/ ChainBinStart \/ ChainBinRecv \/ ChainBinSeeClosed
    \/ ChainBinDeferSend \/ ChainBinDeferClose
    \/ ChainNullRecv \/ ChainNullSeeClosed

ChainSpec == ChainInit /\ [][ChainNext]_vars

\* every step of a task of the chain, and of its source, is taken once it
\* stays possible
ChainFairSpec == ChainSpec /\ WF_vars(ChainNext)

(***************************************************************************)
(* A stream source -> Process stage (concurrency 1) -> collecting sink.    *)
(* chIn is the source's channel, chOut the stage's output and the sink's   *)
(* input; pc is the stage's task, chain.nPc the sink's task; the sink      *)
(* holds the items it has taken from chOut.                                *)
(***************************************************************************)
\* the items of the tests' sources: "hello" and "world"
Hello == IntV(1)

World == IntV(2)

UnaryItems == { Hello, World }

\* the transforms of the tests
UFns == { "pass", "rawWorld", "generalWorld", "generalBoth", "cancelWorld" }

\* what a transform returns for an item: a value, a raw error, a General
\* StreamError without item, or a CancellationError
Transform(fn, item) ==
    CASE fn = "rawWorld" -> IF item = World THEN "raw" ELSE "value"
      [] fn = "generalWorld" -> IF item = World THEN "general" ELSE "value"
      [] fn = "generalBoth" ->
            IF item \in { Hello, World } THEN "general" ELSE "value"
      [] fn = "cancelWorld" -> IF item = World THEN "cancel" ELSE "value"
      [] OTHER -> "value"

\* the results that are reported to the error function
ReportedTypedOnly(result) == result \in { "general", "cancel" }

Reported(result) == result \in { "raw", "general", "cancel" }

\* what the channel returned by Open yields when the sink has completed:
\* the tests require nil, also after a CancellationError
OpenYields(cancelled) == "nil"

\* New(src).Process(fn).Into(snk)
Process(fn) ==
    /\ topo = "unary"
    /\ pc = "idle"
    /\ uFn = "none"
    /\ uFn' = fn
    /\ UNCHANGED << concurrency, lastConc, ops, calls, lateSteps, topo,
                    exeCancelled, inputSet, execErr, sawClosed, sawDone,
                    crashed, bOp, bState, s0, applied, reading, chain, openRes, src,
                    produced, chIn, chOut, outHist, badSend, ctxDone, pc,
                    errCalls, sCur >>

\* Open: the stages are wired and started
UnaryOpen ==
    /\ topo = "unary"
    /\ pc = "idle"
    /\ uFn # "none"
    /\ pc' = "select"
    /\ chain' = [chain EXCEPT !.nPc = "select"]
    /\ UNCHANGED << concurrency, lastConc, ops, calls, lateSteps, topo,
                    exeCancelled, inputSet, execErr, sawClosed, sawDone,
                    crashed, bOp, bState, s0, applied, reading, uFn, openRes, src,
                    produced, chIn, chOut, outHist, badSend, ctxDone,
                    errCalls, sCur >>

\* the source: in <- item
UnaryProduce == topo = "unary" /\ Produce

\* the source: close(in)
UnaryCloseInput == topo = "unary" /\ CloseInput

\* the stage receives an item and applies the transform: a value is to be
\* emitted; an error is reported and the item dropped; a CancellationError
\* is reported, triggers the cancellation token and ends the stage, which
\* closes its output
UnaryRecv ==
    /\ topo = "unary"
    /\ pc = "select"
    /\ CanRecv
    /\ LET item == Head(chIn.buf)
           result == Transform(uFn, item)
       IN  /\ chIn' = [chIn EXCEPT !.buf = Tail(@)]
           /\ errCalls' = IF Reported(result) THEN errCalls + 1 ELSE errCalls
           /\ CASE result = "value" ->
                     /\ sCur' = << item >>
                     /\ pc' = "emit"
                     /\ UNCHANGED << ctxDone, chOut >>
                [] result = "cancel" ->
                     /\ ctxDone' = TRUE
                     /\ chOut' = Close(chOut)
                     /\ pc' = "done"
                     /\ UNCHANGED sCur
                [] OTHER ->
                     UNCHANGED << sCur, pc, ctxDone, chOut >>
    /\ UNCHANGED << concurrency, lastConc, ops, calls, lateSteps, topo,
                    exeCancelled, inputSet, execErr, sawClosed, sawDone,
                    crashed, bOp, bState, s0, applied, reading, chain, uFn, openRes,
                    src, produced, outHist, badSend >>

\* the stage sends the value on its output
UnaryEmit ==
    /\ topo = "unary"
    /\ pc = "emit"
    /\ Len(chOut.buf) < OutCap
    /\ Emit(Head(sCur))
    /\ sCur' = << >>
    /\ pc' = "select"
    /\ UNCHANGED << concurrency, lastConc, ops, calls, lateSteps, topo,
                    exeCancelled, inputSet, execErr, sawClosed, sawDone,
                    crashed, bOp, bState, s0, applied, reading, chain, uFn, openRes,
                    src, produced, chIn, ctxDone, errCalls >>

\* the stage sees its input closed: it closes its output and exits
UnarySeeClosed ==
    /\ topo = "unary"
    /\ pc = "select"
    /\ RecvClosed
    /\ chOut' = Close(chOut)
    /\ pc' = "done"
    /\ UNCHANGED << concurrency, lastConc, ops, calls, lateSteps, topo,
                    exeCancelled, inputSet, execErr, sawClosed, sawDone,
                    crashed, bOp, bState, s0, applied, reading, chain, uFn, openRes,
                    src, produced, chIn, outHist, badSend, ctxDone, errCalls,
                    sCur >>

\* the sink takes an item from its input
SinkRecv ==
    /\ topo = "unary"
    /\ chain.nPc = "select"
    /\ chOut.buf # << >>
    /\ chOut' = [chOut EXCEPT !.buf = Tail(@)]
    /\ UNCHANGED << concurrency, lastConc, ops, calls, lateSteps, topo,
                    exeCancelled, inputSet, execErr, sawClosed, sawDone,
                    crashed, bOp, bState, s0, applied, reading, chain, uFn, openRes,
                    src, produced, chIn, outHist, badSend, ctxDone, pc,
                    errCalls, sCur >>

\* the sink sees its input closed and drained, or the context done, and
\* completes
SinkEnds ==
    /\ topo = "unary"
    /\ chain.nPc = "select"
    /\ (chOut.buf = << >> /\ Closed(chOut)) \/ ctxDone
    /\ chain' = [chain EXCEPT !.nPc = "done"]
    /\ UNCHANGED << concurrency, lastConc, ops, calls, lateSteps, topo,
                    exeCancelled, inputSet, execErr, sawClosed, sawDone,
                    crashed, bOp, bState, s0, applied, reading, uFn, openRes, src,
                    produced, chIn, chOut, outHist, badSend, ctxDone, pc,
                    errCalls, sCur >>

\* case err := <-strm.Open()
OpenResolves ==
    /\ topo = "unary"
    /\ chain.nPc = "done"
    /\ openRes = "pending"
    /\ openRes' = OpenYields(ctxDone)
    /\ UNCHANGED << concurrency, lastConc, ops, calls, lateSteps, topo,
                    exeCancelled, inputSet, execErr, sawClosed, sawDone,
                    crashed, bOp, bState, s0, applied, reading, chain, uFn, src,
                    produced, chIn, chOut, outHist, badSend, ctxDone, pc,
                    errCalls, sCur >>

UnaryInit ==
    /\ InitCommon
    /\ topo = "unary"
    /\ src \in SeqsUpTo(UnaryItems, MaxLen)
    /\ InitRun

UnaryNext ==
    \/ \E fn \in UFns : Process(fn)
    \/ UnaryOpen
    \/ UnaryProduce \/ UnaryCloseInput
    \/ UnaryRecv \/ UnaryEmit \/ UnarySeeClosed
    \/ SinkRecv \/ SinkEnds
    \/ OpenResolves

UnarySpec == UnaryInit /\ [][UnaryNext]_vars

(***************************************************************************)
(* The operator list of a Stream.                                          *)
(***************************************************************************)
\* the key, name or position given to a grouping or sorting call
BuildArgs == { 0, 1 }

\* batch.New(s.ctx)
BatchOperator == [ type |-> "batch", fn |-> "none", arg |-> 0 ]

\* unary.New(s.ctx) with SetOperation(fn(arg))
UnaryOperator(fn, arg) == [ type |-> "unary", fn |-> fn, arg |-> arg ]

\* s.ops = append(s.ops, operator); return s
appendOpFront(list, operator) ==
    [ ops |-> << operator >> \o list, ret |-> "s" ]

appendOp(list, operator) ==
    [ ops |-> Append(list, operator), ret |-> "s" ]

\* a building call on the stream s: the operator is made and handed to
\* appendOp, whose result the call returns
BuildCall(name, arg, operator) ==
    /\ Len(ops) < MaxOps
    /\ LET r == appendOp(ops, operator)
       IN  /\ ops' = r.ops
           /\ calls' = Append(calls, [ name |-> name, arg |-> arg,
                                       ret |-> r.ret ])
    /\ UNCHANGED << concurrency, lastConc, chain, uFn, openRes, lateSteps,
                    topo, src, produced, chIn, chOut, outHist, badSend,
                    ctxDone, exeCancelled, inputSet, execErr, pc, obsVars,
                    binVars, sCur, reading >>

Batch == topo = "build" /\ BuildCall("Batch", 0, BatchOperator)

GroupByKey(key) ==
    topo = "build" /\
    BuildCall("GroupByKey", key, UnaryOperator("GroupByKeyFunc", key))

GroupByName(name) ==
    topo = "build" /\
    BuildCall("GroupByName", name, UnaryOperator("GroupByNameFunc", name))

GroupByPos(pos) ==
    topo = "build" /\
    BuildCall("GroupByPos", pos, UnaryOperator("GroupByPosFunc", pos))

SortByKey(key) ==
    topo = "build" /\
    BuildCall("SortByKey", key, UnaryOperator("SortByKeyFunc", key))

\* a stream with no operator yet
BuildInit == InitCommon /\ topo = "build" /\ src = << >> /\ InitRun

BuildNext ==
    \/ Batch
    \/ \E key \in BuildArgs : GroupByKey(key)
    \/ \E name \in BuildArgs : GroupByName(name)
    \/ \E pos \in BuildArgs : GroupByPos(pos)
    \/ \E key \in BuildArgs : SortByKey(key)

BuildSpec == BuildInit /\ [][BuildNext]_vars

(***************************************************************************)
(* Properties.                                                             *)
(***************************************************************************)
\* the items the task has taken from its input channel, in order
Received == SubSeq(produced, 1, Len(produced) - Len(chIn.buf))

\* C1: a binary operator run without cancellation emits nothing before its
\* input channel is closed, emits exactly one item in all, and closes its
\* output after that item.
C1_OneItemWhenInputCloses ==
    (topo = "binary" /\ ~ctxDone) =>
        /\ Len(outHist) <= 1
        /\ (outHist # << >> => Closed(chIn))
        /\ (Closed(chOut) => Len(outHist) = 1)

\* the left fold of op over items from st; Panic when a call panics
RECURSIVE Fold(_, _, _)
Fold(op, st, items) ==
    IF items = << >> THEN st
    ELSE LET r == Apply(op, st, Head(items))
         IN  IF r = Panic THEN Panic ELSE Fold(op, r, Tail(items))

\* every call of the fold returns a value that is neither nil nor a StreamError
RECURSIVE ReturnsValues(_, _, _)
ReturnsValues(op, st, items) ==
    \/ items = << >>
    \/ LET r == Apply(op, st, Head(items))
       IN  /\ r.kind \notin { "panic", "nil", "err" }
           /\ ReturnsValues(op, r, Tail(items))

\* C2: without cancellation, and with an operation that returns neither nil
\* nor a StreamError on this input, the one item the binary operator emits
\* is the left fold of the operation over the input from the initial state
\* (the initial state itself for the empty input); the inputs of the two
\* tests give 10 and 15.
C2_EmitsLeftFold ==
    (topo = "binary" /\ bOp # "none" /\ ~ctxDone /\ pc = "done") =>
        /\ ReturnsValues(bOp, s0, produced) =>
              outHist = << Fold(bOp, s0, produced) >>
        /\ (bOp = "sumslice" /\ s0 = IntV(0) /\ produced = TestExecInput) =>
              outHist = << IntV(10) >>
        /\ (bOp = "add" /\ s0 = IntV(0) /\ produced = TestReduceInput) =>
              outHist = << IntV(15) >>
        /\ (produced = << >>) => outHist = << s0 >>

\* TestBinaryOp_Exec has run to its end: 10 is on the output
C2_Witness ==
    /\ topo = "binary" /\ pc = "done" /\ ~ctxDone
    /\ bOp = "sumslice" /\ s0 = IntV(0) /\ produced = TestExecInput
    /\ outHist = << IntV(10) >>

\* C3: an item for which the operation returns nil or a StreamError leaves
\* the accumulator as it was: the next call of the operation is passed the
\* state the offending call was passed, and so is the state held after it.
C3_StateKeptOnNilOrError ==
    topo = "binary" =>
        \A i \in 1..Len(applied) :
            applied[i][3].kind \in { "nil", "err" } =>
                IF i < Len(applied)
                THEN applied[i + 1][1] = applied[i][1]
                ELSE bState = applied[i][1]

\* C4: a binary operator that has left its loop because the context is done
\* places no item on its output.
C4_NoEmissionOnCancel ==
    (topo = "binary" /\ sawDone) => outHist = << >>

\* C5: no item the binary operator places on its output is nil.
C5_NeverEmitsNil ==
    topo = "binary" => \A i \in 1..Len(outHist) : outHist[i].kind # "nil"

\* C6: the output channel of a binary or stream-expand operator is closed
\* at most once, it is closed exactly once when the task has ended, whatever
\* made it end, and nothing is sent on it after the close.
C6_OutputClosedOnce ==
    topo \in { "binary", "stream" } =>
        /\ chOut.closes <= 1
        /\ ~badSend
        /\ (pc = "done" <=> chOut.closes = 1)

\* a binary operator has left on cancellation, emitted and closed
C6_Witness ==
    /\ topo = "binary" /\ pc = "done" /\ sawDone
    /\ Len(outHist) = 1 /\ chOut.closes = 1

\* C7: under fair scheduling a started task ends (closing its output or
\* result channel) once the context is done, whatever the producer and the
\* consumer do; and once its input channel is closed, as long as the
\* consumer has not stopped reading.
C7_TaskEnds ==
    /\ (ctxDone /\ pc # "idle") ~> (pc = "done" /\ Closed(chOut))
    /\ (Closed(chIn) /\ inputSet /\ pc # "idle") ~>
           ((pc = "done" /\ Closed(chOut)) \/ ~reading)

\* a stream-expand task has ended on cancellation with its output buffer
\* full and a consumer that had stopped reading
C7_Witness ==
    /\ topo = "stream" /\ pc = "done" /\ sawDone /\ ~reading
    /\ Len(chOut.buf) = OutCap /\ sCur # << >>

\* C8: a binary or stream-expand task that has ended has observed its input
\* closed or its context done.
C8_EndsOnlyOnClosedOrDone ==
    (topo \in { "binary", "stream" } /\ pc = "done") => (sawClosed \/ sawDone)

\* the concatenation of the elements of the items
RECURSIVE Flatten(_)
Flatten(items) ==
    IF items = << >> THEN << >> ELSE Head(items).elems \o Flatten(Tail(items))

AllOfKind(items, kinds) == \A i \in 1..Len(items) : items[i].kind \in kinds

\* C9: without cancellation and on an input of slices, what the
\* stream-expand operator has emitted, followed by what is left of the
\* current item, is the concatenation of the received items' elements, and
\* at the end of the task it is the concatenation for the whole input.
C9_SlicesExpandInOrder ==
    (topo = "stream" /\ ~ctxDone /\ AllOfKind(produced, { "slice" })) =>
        /\ outHist \o sCur = Flatten(Received)
        /\ pc = "done" => (src = << >> /\ outHist = Flatten(produced))

\* two slices have gone through an output channel too small to hold them
C9_Witness ==
    /\ topo = "stream" /\ pc = "done" /\ ~ctxDone
    /\ produced = << SliceV(<<IntV(1), IntV(2)>>), SliceV(<<IntV(3)>>) >>
    /\ outHist = << IntV(1), IntV(2), IntV(3) >>
    /\ Len(outHist) > OutCap

\* C10: without cancellation and on an input of scalars, structs and nil
\* items, the stream-expand operator emits the items it receives, each once
\* and in input order, and all of them by the end of the task.
C10_OtherItemsPassThrough ==
    (topo = "stream" /\ ~ctxDone /\ AllOfKind(produced, { "int", "kv", "nil" })) =>
        /\ outHist \o sCur = Received
        /\ pc = "done" => outHist = produced

\* the values a received item is emitted as, up to the order of map entries
Width(item) ==
    CASE item.kind \in { "slice", "map" } -> Len(item.elems)
      [] item.kind = "nil" -> 0
      [] OTHER -> 1

SameEntries(a, b) ==
    /\ Len(a) = Len(b)
    /\ { a[i] : i \in 1..Len(a) } = { b[i] : i \in 1..Len(b) }

\* out is, item by item, what the items are emitted as: for a map its
\* entries as tuple.KV values, each once, in some order
RECURSIVE ExpandsTo(_, _)
ExpandsTo(out, items) ==
    IF items = << >> THEN out = << >>
    ELSE LET it == Head(items)
             k == Width(it)
             chunk == SubSeq(out, 1, k)
         IN  /\ Len(out) >= k
             /\ CASE it.kind = "map" ->
                       /\ SameEntries(chunk, it.elems)
                       /\ \A i \in 1..k : chunk[i].kind = "kv"
                  [] it.kind = "slice" -> chunk = it.elems
                  [] it.kind = "nil" -> TRUE
                  [] OTHER -> chunk = <<it>>
             /\ ExpandsTo(SubSeq(out, k + 1, Len(out)), Tail(items))

\* C11: without cancellation, what the stream-expand operator has emitted,
\* followed by what is left of the current item, is item by item what the
\* received items are emitted as, a map with k entries as its k tuple.KV
\* values in some order; the values of an item are all emitted before the
\* next item is received.
C11_MapEntriesContiguous ==
    (topo = "stream" /\ ~ctxDone) =>
        /\ ExpandsTo(outHist \o sCur, Received)
        /\ pc # "emit" => sCur = << >>

\* a map and then a slice have been expanded, the map in reverse key order
C11_Witness ==
    /\ topo = "stream" /\ pc = "done" /\ ~ctxDone /\ sawClosed
    /\ produced = << MapV(<<KV(1, 1), KV(2, 1)>>), SliceV(<<IntV(3)>>) >>
    /\ outHist = << KV(2, 1), KV(1, 1), IntV(3) >>

\* C12 as stated: a task takes at most one more item (received, emitted or
\* applied) once the context is done.
C12_AtMostOneLateStep ==
    topo \in { "binary", "stream" } => lateSteps <= 1

\* C12: once a task has observed the context done it receives no further
\* input item, the stream-expand operator emits no further output item and
\* the binary operator applies its operation to no further item.  (Before
\* the observation a select may still take a ready receive or send.)
C12_NothingAfterObservation ==
    [][ (topo \in { "binary", "stream" } /\ sawDone) =>
           /\ Len(Received)' = Len(Received)
           /\ applied' = applied
           /\ (topo = "stream" => outHist' = outHist) ]_vars

\* a stream-expand task has observed the cancellation after two late steps
C12_Witness ==
    /\ topo = "stream" /\ sawDone /\ pc = "done" /\ lateSteps = 2

\* C13 as stated: the result channel of the null collector is closed only
\* when its input channel is closed and drained.
C13_ClosedOnlyWhenDrained ==
    (topo = "null" /\ Closed(chOut)) => (Closed(chIn) /\ chIn.buf = << >>)

\* C13: the result channel of the null collector never carries a value, is
\* closed at most once, exactly once when the task has ended, and is closed
\* only when the input channel is closed and drained or the context is done.
C13_ClosedWhenDrainedOrDone ==
    topo = "null" =>
        /\ outHist = << >> /\ chOut.buf = << >>
        /\ chOut.closes <= 1
        /\ (pc = "done" <=> chOut.closes = 1)
        /\ Closed(chOut) =>
              \/ (sawClosed /\ Closed(chIn) /\ chIn.buf = << >> /\ src = << >>)
              \/ (sawDone /\ ctxDone)

\* the collector has drained a full input and closed its result channel
C13_Witness ==
    /\ topo = "null" /\ pc = "done" /\ sawClosed /\ ~ctxDone
    /\ Len(produced) = MaxLen /\ chOut.closes = 1

\* the number of StreamError results among the calls of the operation
RECURSIVE ErrResults(_)
ErrResults(as) ==
    IF as = << >> THEN 0
    ELSE (IF Head(as)[3].kind = "err" THEN 1 ELSE 0) + ErrResults(Tail(as))

\* C20: the error function of the binary operator has been called once for
\* each StreamError the operation returned; after such a result the task is
\* back at its select with its child context not cancelled, and every item
\* it receives is applied.
C20_ErrorsReportedOnce ==
    topo = "binary" =>
        /\ errCalls = ErrResults(applied)
        /\ pc \in { "select", "defer", "closing", "done" } =>
              Len(applied) = Len(Received)
        /\ (applied # << >> /\ applied[Len(applied)][3].kind = "err"
               /\ ~sawClosed /\ ~sawDone) =>
              (pc = "select" /\ ~exeCancelled /\ ~crashed)

\* a StreamError was reported once and the item after it was still applied
C20_Witness ==
    /\ topo = "binary" /\ bOp = "guarded" /\ errCalls = 1
    /\ Len(applied) = 2 /\ applied[1][3].kind = "err"

(***************************************************************************)
(* The binary operator's concurrency degree.                               *)
(***************************************************************************)
\* the items of the applications made so far, in order
AppliedItems == [ i \in 1 .. Len(applied) |-> applied[i][2] ]

\* C15: whatever was given to SetConcurrency, the operation is applied to the
\* items in the order they were received from the input, one application
\* at a time: the first application starts from the state Exec found, each
\* later one from the result of the one before it, and the state held is
\* the result of the last one
C15_AppliedSeriallyInOrder ==
    topo = "binary" =>
        /\ AppliedItems = Received
        /\ \A i \in 1 .. Len(applied) :
              applied[i][1] = IF i = 1 THEN s0 ELSE applied[i - 1][3]
        /\ (applied # << >> /\ ~crashed) =>
              bState = applied[Len(applied)][3]

\* with a degree of 4 two different items were received and applied
C15_Witness ==
    /\ topo = "binary" /\ concurrency = 4 /\ bOp = "add"
    /\ Len(applied) = 2 /\ applied[1][2] # applied[2][2]
    /\ applied[2][1] # s0

\* C19: the degree is 1 after New and at least 1 ever after; the last call
\* of SetConcurrency stored its argument when that was at least 1, and 1
\* when it was less
C19_ConcurrencyAtLeastOne ==
    topo = "binary" =>
        /\ concurrency >= 1
        /\ lastConc = << >> => concurrency = 1
        /\ (lastConc # << >> /\ lastConc[1] >= 1) => concurrency = lastConc[1]
        /\ (lastConc # << >> /\ lastConc[1] < 1) => concurrency = 1

\* SetConcurrency(0) was the last call and the task has run to its end
C19_Witness ==
    /\ topo = "binary" /\ lastConc = << 0 >> /\ concurrency = 1
    /\ pc = "done"

(***************************************************************************)
(* The operator list of a Stream.                                          *)
(***************************************************************************)
\* the operator a building call is documented to make
Built(call) ==
    IF call.name = "Batch" THEN BatchOperator
    ELSE UnaryOperator(call.name \o "Func", call.arg)

\* C16: a building call appends exactly one operator at the end of the list,
\* leaves the operators before it as they were and returns the stream it
\* was called on; after the call the list holds, in call order, the
\* operator of every call made
C16_CallAppendsOneOperator ==
    [][ (topo = "build" /\ calls' # calls) =>
          /\ Len(calls') = Len(calls) + 1
          /\ Len(ops') = Len(ops) + 1
          /\ SubSeq(ops', 1, Len(ops)) = ops
          /\ calls'[Len(calls')].ret = "s"
          /\ Len(ops') = Len(calls')
          /\ \A i \in 1 .. Len(ops') : ops'[i] = Built(calls'[i]) ]_vars

\* three chained calls: SortByKey(1), then Batch, then GroupByPos(0)
C16_Witness ==
    /\ topo = "build"
    /\ Len(ops) = 3 /\ Len(calls) = 3
    /\ calls[1].name = "SortByKey" /\ calls[1].arg = 1
    /\ calls[2].name = "Batch" /\ calls[3].name = "GroupByPos"
    /\ ops[1] = UnaryOperator("SortByKeyFunc", 1)
    /\ ops[2] = BatchOperator
    /\ ops[3] = UnaryOperator("GroupByPosFunc", 0)

(***************************************************************************)
(* The chain.                                                              *)
(***************************************************************************)
\* C14: when the channel returned by the collector's Open is closed, every
\* operator task of the chain has exited
C14_AllExitedWhenOpenResolves ==
    (topo = "chain" /\ Closed(chain.res)) =>
        (chain.sPc = "done" /\ pc = "done" /\ chain.nPc = "done")

(***************************************************************************)
(* The Process stage.                                                      *)
(***************************************************************************)
\* the items the sink has taken
SinkItems == SubSeq(outHist, 1, Len(outHist) - Len(chOut.buf))

\* the items of a sequence for which the stage's transform returns a value
RECURSIVE Passing(_)
Passing(items) ==
    IF items = << >> THEN << >>
    ELSE IF Transform(uFn, Head(items)) = "value"
         THEN << Head(items) >> \o Passing(Tail(items))
         ELSE Passing(Tail(items))

IsPrefix(a, b) == Len(a) <= Len(b) /\ SubSeq(b, 1, Len(a)) = a

\* C17: with a transform that answers some items with a raw error or a
\* General StreamError, the stage emits exactly the other items it has
\* received, in input order, the error function has been called once for
\* each item answered with an error, and when Open has yielded it has
\* yielded nil and the sink holds every other item of the source
C17_ErrorItemsDropped ==
    (topo = "unary" /\ uFn \in { "rawWorld", "generalWorld", "generalBoth" }) =>
        /\ outHist \o sCur = Passing(Received)
        /\ errCalls = Len(Received) - Len(Passing(Received))
        /\ IsPrefix(SinkItems, Passing(produced \o src))
        /\ openRes # "pending" =>
              /\ openRes = "nil"
              /\ src = << >>
              /\ SinkItems = Passing(produced)
              /\ errCalls = Len(produced) - Len(Passing(produced))

\* "world" then "hello" with a raw error for "world": one report, "hello"
\* in the sink, Open has yielded nil
C17_Witness ==
    /\ topo = "unary" /\ uFn = "rawWorld"
    /\ produced = << World, Hello >>
    /\ errCalls = 1 /\ SinkItems = << Hello >>
    /\ openRes = "nil"

\* C18: after a CancellationError of the transform Open yields a non-nil
\* error, and the sink holds a prefix of the items that pass the transform
C18_CancelYieldsError ==
    (topo = "unary" /\ uFn = "cancelWorld" /\ ctxDone
       /\ openRes # "pending") =>
        /\ openRes = "error"
        /\ IsPrefix(SinkItems, Passing(produced \o src))

(***************************************************************************)
(* Exec without an input channel.                                          *)
(***************************************************************************)
\* a step that is a call of Exec: before a task is started only Exec changes
\* the error it returned or the position of the task
IsExecCall == pc = "idle" /\ (execErr' # execErr \/ pc' # pc)

\* what the call of Exec did, without and with an input set
ExecCallEffect ==
    IF ~inputSet
    THEN /\ execErr' /\ pc' = "idle"
         /\ chOut' = NewChan /\ chOut' = chOut
         /\ bState' = bState /\ bOp' = bOp
    ELSE ~execErr' /\ pc' # "idle"

\* no task runs: nothing emitted, nothing received, nothing applied
NothingStarted ==
    /\ pc = "idle"
    /\ chOut = NewChan /\ outHist = << >>
    /\ applied = << >> /\ Received = << >>

\* C21: a call of Exec on a binary or stream-expand operator with no input
\* set returns an error, starts no task and leaves the output channel open
\* and empty and the state as it was; a call with an input set returns nil
\* and starts the task; and as long as the last Exec has returned an error
\* no task runs, nothing has been emitted and no item has been applied
C21_ExecWithoutInputStartsNothing ==
    [][ (topo \in { "binary", "stream" }) =>
          ((IsExecCall => ExecCallEffect) /\ (execErr' => NothingStarted')) ]_vars

\* Exec has returned its error on a binary operator with an operation and
\* an initial state set, while the producer's channel already holds an item
C21_Witness ==
    /\ topo = "binary" /\ execErr /\ ~inputSet /\ pc = "idle"
    /\ bOp = "add" /\ bState = IntV(1)
    /\ chIn.buf # << >>

(***************************************************************************)
(* The derived child context.                                              *)
(***************************************************************************)
\* the task observes its input closed in this step
ObservesClosed == ~sawClosed /\ sawClosed'

\* the step is none of the task: the task, its child context and its
\* output channel are where they were
NoTaskStep == pc' = pc /\ exeCancelled' = exeCancelled /\ chOut.closes' = chOut.closes

\* C22: the step in which a binary or stream-expand task observes its input
\* closed cancels the task's child context and leaves the context passed
\* to Exec as it was; and no step of a task makes that context done
C22_ExitCancelsOnlyChildContext ==
    [][ (topo \in { "binary", "stream" }) =>
          ((ObservesClosed => (exeCancelled' /\ ctxDone' = ctxDone))
           /\ ((~ctxDone /\ ctxDone') => NoTaskStep)) ]_vars

\* a stream-expand task has ended on its closed input after emitting, its
\* child context is cancelled and the stream context is not done
C22_Witness ==
    /\ topo = "stream" /\ sawClosed /\ pc = "done" /\ exeCancelled
    /\ ~ctxDone /\ outHist # << >>

(***************************************************************************)
(* The collector without an input.                                         *)
(***************************************************************************)
\* Open was called on a collector whose SetInput never was
OpenedWithoutInput == topo = "null" /\ ~inputSet /\ pc # "idle"

\* C23: the task of a collector opened without an input receives nothing
\* and never sees an input closed; its result channel is closed only when
\* the task has observed the context done; and once the context is done
\* the result channel is closed in the end
C23_ClosedIffContextDone ==
    /\ [](OpenedWithoutInput =>
            /\ Received = << >> /\ ~sawClosed
            /\ Closed(chOut) <=> (pc = "done")
            /\ Closed(chOut) => (ctxDone /\ sawDone))
    /\ ((OpenedWithoutInput /\ ctxDone) ~> Closed(chOut))

\* the result channel was closed on the context done while an item sent by
\* the producer and the closing of its channel were never received
C23_Witness ==
    /\ OpenedWithoutInput /\ pc = "done" /\ sawDone /\ chOut.closes = 1
    /\ chIn.buf # << >> /\ Closed(chIn)
====
